---- MODULE Spec2Model ----
(***************************************************************************)
(* A model of pptx/presentation.py: the Package class (instance registry,  *)
(* relationship graph traversal, lazily cached properties, open and save), *)
(* the lazyproperty decorator and the Presentation part; and of            *)
(* pptx/chart/plot.py: Plot.data_labels and DataLabels.                    *)
(*                                                                         *)
(* Objects are numbers.  A Package is its construction number (1, 2, ...), *)
(* a Part is its index in the table of part objects, and an external       *)
(* target (a URI string) is a negative number.  A Relationship is a record *)
(* [rId, reltype, target, is_external]; a RelationshipCollection is the    *)
(* sequence of its relationships in insertion order.                       *)
(***************************************************************************)
EXTENDS Integers, Sequences, FiniteSets, TLC

\* ------------------------------------------------------------------ bounds
\* Packages constructed in one run.
MaxPkgs == 4
\* Part objects the application holds before any Package exists.
NParts == 2
\* Relationships over all collections together.
MaxRels == 3
\* Highest rId a caller of add_relationship chooses.
MaxRId == 2
\* Packages, and relationships over all collections, where several Packages
\* share the part objects.
SharedPkgs == 2
MaxSharedRels == 2
\* Stored parts and relationship records of a container read from disk.
MaxFileParts == 2
MaxFileRels == 2
\* Part objects, and relationships over all collections, where the order of
\* the walk is observed.
OrderParts == 3
OrderRels == 3
\* Plot objects, and dLbls elements a plot element may be given.
NPlots == 3
MaxDLbls == 2

\* ------------------------------------------------------------- value sets
PkgIds == 1..MaxPkgs
AppParts == 1..NParts
\* The one external target the model uses, a URI string.
URI == -1
\* pptx.opc.constants.RELATIONSHIP_TYPE members the source names.
CORE_PROPERTIES == "coreProperties"
OFFICE_DOCUMENT == "officeDocument"
SLIDE_MASTER == "slideMaster"
\* The cache attribute of a lazy property that has not been computed
\* (getattr raises AttributeError).
Unset == 0
\* The three lazy properties of Package.
LazyNames == {"core_properties", "presentation", "_images"}
\* The chart plots, and the value of element.dLbls when the plot element has
\* no dLbls child.
Plots == 1..NPlots
None == 0

VARIABLES
  made,            \* number of Packages constructed so far
  live,            \* the Packages still referenced (not collected)
  _instances,      \* Package._instances: weak references, in append order
  _rels,           \* Package._rels of each Package
  _relationships,  \* part._relationships of each part object
  cache,           \* the '_<name>' cache attribute of each Package
  inits,           \* normal returns of each lazy initializer (observer)
  first,           \* the value each lazy property first returned (observer)
  part_attrs,      \* partname and content_type of each part object
  pkg_file,        \* the container the last save wrote
  saved,           \* the part graph of the Package that save wrote (observer)
  _slidemasters,   \* the '_slidemasters' attribute of the parts that have one
  _slides,         \* the parts that have a '_slides' attribute
  dLbls,           \* plot._element.dLbls of each plot
  ret              \* what the last operation returned or raised

vars == <<made, live, _instances, _rels, _relationships, cache, inits, first,
          part_attrs, pkg_file, saved, _slidemasters, _slides, dLbls, ret>>
\* What only open, save and the creation of a part change.
fileVars == <<pkg_file, saved>>
\* The attributes of Presentation parts, and the chart plots.
presVars == <<_slidemasters, _slides>>
plotVars == <<dLbls>>

\* ---------------------------------------------------------------- helpers
SeqSet(s) == {s[i] : i \in 1..Len(s)}
InSeq(x, s) == \E i \in 1..Len(s) : s[i] = x
NoDup(s) == \A i, j \in 1..Len(s) : s[i] = s[j] => i = j
RECURSIVE SeqFilter(_, _)
SeqFilter(s, keep) ==
  IF s = <<>> THEN <<>>
  ELSE IF Head(s) \in keep THEN <<Head(s)>> \o SeqFilter(Tail(s), keep)
       ELSE SeqFilter(Tail(s), keep)
RECURSIVE SumLen(_, _)
SumLen(f, S) ==
  IF S = {} THEN 0
  ELSE LET x == CHOOSE y \in S : TRUE IN Len(f[x]) + SumLen(f, S \ {x})

\* The result record every operation leaves in ret.  For a lazy property
\* arg is 1 when the value came from the cache attribute and 0 when the
\* method ran; for get_or_add val is the rId of the relationship returned
\* and seq holds the target passed.
Result(op, pkg, arg, status, val, seq) ==
  [op |-> op, pkg |-> pkg, arg |-> arg, status |-> status, val |-> val, seq |-> seq]
NoResult == Result("none", 0, 0, "ok", 0, <<>>)

Rel(rId, reltype, target, is_external) ==
  [rId |-> rId, reltype |-> reltype, target |-> target, is_external |-> is_external]

\* Relationships held by all collections that still exist.
TotalRels == SumLen(_rels, live) + SumLen(_relationships, DOMAIN _relationships)

\* Partnames are numbers: 0 is the package root as a source, the parts of a
\* container are 1, 2, ..., the application's own part q is 10 + q and the
\* default core-properties part is CorePartname.  Parts of an odd partname
\* have the presentation content type, for which PartFactory builds a
\* Presentation; the others are opaque parts.
Attrs(partname, content_type) == [partname |-> partname, content_type |-> content_type]
ContentTypeOf(partname) == IF partname % 2 = 1 THEN "presentation" ELSE "bin"
AppPartAttrs(q) == Attrs(10 + q, ContentTypeOf(q))
CorePartname == 100
CorePropsAttrs == Attrs(CorePartname, "coreprops")
\* No container has been written yet.
NoFile == [parts |-> <<>>, rels |-> <<>>, written |-> FALSE]
NoGraph == [parts |-> {}, rels |-> {}]

NoCache == [n \in LazyNames |-> Unset]
NoInits == [n \in LazyNames |-> 0]

\* ------------------------------------------------------------------- Init
Init ==
  /\ made = 0
  /\ live = {}
  /\ _instances = <<>>
  /\ _rels = [p \in PkgIds |-> <<>>]
  /\ _relationships = [q \in AppParts |-> <<>>]
  /\ cache = [p \in PkgIds |-> NoCache]
  /\ inits = [p \in PkgIds |-> NoInits]
  /\ first = [p \in PkgIds |-> NoCache]
  /\ part_attrs = [q \in AppParts |-> AppPartAttrs(q)]
  /\ pkg_file = NoFile
  /\ saved = NoGraph
  /\ _slidemasters = <<>>
  /\ _slides = {}
  /\ dLbls = [pl \in Plots |-> None]
  /\ ret = NoResult

\* ------------------------------------------------- Package._walkparts
\* The generator, run to its end by the list comprehension of _parts.  st is
\* [parts, status, fuel]: the shared list of visited parts, "ok" or how the
\* walk ended, and the loop iterations left before the walk is cut off.
\* prels is the table of part collections, rels the collection being walked
\* and i the position of the for loop in it.
\* The walk that goes through the rest of a collection before it descends
\* into the part it has just listed.
RECURSIVE _walkparts_siblings_first(_, _, _, _)
_walkparts_siblings_first(prels, rels, i, st) ==
  IF st.status # "ok" \/ i > Len(rels) THEN st
  ELSE IF st.fuel = 0 THEN [st EXCEPT !.status = "cutoff"]
  ELSE
    LET rel == rels[i]
        st1 == [st EXCEPT !.fuel = @ - 1]
    IN  IF rel.is_external THEN [st1 EXCEPT !.status = "error"]
        ELSE IF InSeq(rel.target, st1.parts)
          THEN _walkparts_siblings_first(prels, rels, i + 1, st1)
        ELSE _walkparts_siblings_first(prels, prels[rel.target], 1,
               _walkparts_siblings_first(prels, rels, i + 1,
                 [st1 EXCEPT !.parts = Append(@, rel.target)]))

RECURSIVE _walkparts(_, _, _, _)
_walkparts(prels, rels, i, st) ==
  IF st.status # "ok" \/ i > Len(rels) THEN st
  ELSE IF st.fuel = 0 THEN [st EXCEPT !.status = "cutoff"]
  ELSE
    LET rel == rels[i]
        st1 == [st EXCEPT !.fuel = @ - 1]
    IN  IF rel.is_external
          \* rel.target_part of an external relationship is no Part: the
          \* walk raises (from target_part, or from part._relationships on
          \* the URI string) and the list comprehension is abandoned.
          THEN [st1 EXCEPT !.status = "error"]
        ELSE IF InSeq(rel.target, st1.parts)
          THEN _walkparts(prels, rels, i + 1, st1)
        ELSE _walkparts(prels, rels, i + 1,
               _walkparts(prels, prels[rel.target], 1,
                          [st1 EXCEPT !.parts = Append(@, rel.target)]))

\* Package._parts of a collection rels over the part table prels: the walk,
\* allowed one loop iteration per relationship of the graph.
PartsOf(prels, rels) ==
  _walkparts(prels, rels, 1,
             [parts |-> <<>>, status |-> "ok",
              fuel |-> Len(rels) + SumLen(prels, DOMAIN prels)])

_parts(p) == PartsOf(_relationships, _rels[p])

\* The property: the list comprehension over the generator returns the
\* list, or the exception of the walk reaches the caller.
parts_access(p) ==
  /\ p \in live
  /\ ret' = Result("_parts", p, 0, _parts(p).status, 0,
                   IF _parts(p).status = "ok" THEN _parts(p).parts ELSE <<>>)
  /\ UNCHANGED <<made, live, _instances, _rels, _relationships, cache, inits, first, part_attrs, fileVars, presVars, plotVars>>

\* --------------------------------------------------- Package.__init__
\* New with the weak reference put first in the list instead of last.
NewPrepend ==
  /\ made' = made + 1
  /\ live' = live \cup {made + 1}
  /\ _instances' = <<made + 1>> \o _instances
  /\ _rels' = [_rels EXCEPT ![made + 1] = <<>>]
  /\ ret' = [op |-> "init", pkg |-> made + 1, arg |-> 0, status |-> "ok",
             val |-> made + 1, seq |-> <<>>]
  /\ UNCHANGED <<_relationships, cache, inits, first, part_attrs, fileVars, presVars, plotVars>>

\* Package(): append a weak reference to the class's list, start with an
\* empty root collection.
New ==
  /\ made' = made + 1
  /\ live' = live \cup {made + 1}
  /\ _instances' = Append(_instances, made + 1)
  /\ _rels' = [_rels EXCEPT ![made + 1] = <<>>]
  /\ ret' = Result("init", made + 1, 0, "ok", made + 1, <<>>)
  /\ UNCHANGED <<_relationships, cache, inits, first, part_attrs, fileVars, presVars, plotVars>>

\* The last reference to Package p is dropped and p is collected: its weak
\* reference now yields None, and its attributes are gone with it.
Collect(p) ==
  /\ p \in live
  /\ live' = live \ {p}
  /\ _rels' = [_rels EXCEPT ![p] = <<>>]
  /\ cache' = [cache EXCEPT ![p] = NoCache]
  /\ inits' = [inits EXCEPT ![p] = NoInits]
  /\ first' = [first EXCEPT ![p] = NoCache]
  /\ ret' = Result("collect", p, 0, "ok", 0, <<>>)
  /\ UNCHANGED <<made, _instances, _relationships, part_attrs, fileVars, presVars, plotVars>>

\* ---------------------------------------------------- Package.instances
\* Pruned with the filter left out: dead references stay.
PrunedNothing(refs) == refs

\* wkref() is not None exactly for the Packages still live.
Pruned(refs) == SeqFilter(refs, live)

\* The whole classmethod: prune the class's list in place, then
\* dereference what is left into a tuple.
instances ==
  /\ _instances' = Pruned(_instances)
  /\ ret' = Result("instances", 0, 0, "ok", 0, Pruned(_instances))
  /\ UNCHANGED <<made, live, _rels, _relationships, cache, inits, first, part_attrs, fileVars, presVars, plotVars>>

\* --------------------------------------------------- Package.containing
\* The for loop over the tuple pkgs from position i: the first Package
\* whose _parts holds part, KeyError past the end; a _parts that raises
\* ends the loop with that error.
RECURSIVE ContainingFrom(_, _, _)
ContainingFrom(pkgs, i, part) ==
  IF i > Len(pkgs) THEN Result("containing", 0, part, "KeyError", 0, <<>>)
  ELSE LET w == _parts(pkgs[i])
       IN  IF w.status # "ok"
             THEN Result("containing", 0, part, w.status, 0, <<>>)
           ELSE IF InSeq(part, w.parts)
             THEN Result("containing", 0, part, "ok", pkgs[i], <<>>)
           ELSE ContainingFrom(pkgs, i + 1, part)

containing(part) ==
  /\ part \in DOMAIN _relationships
  /\ _instances' = Pruned(_instances)
  /\ ret' = ContainingFrom(Pruned(_instances), 1, part)
  /\ UNCHANGED <<made, live, _rels, _relationships, cache, inits, first, part_attrs, fileVars, presVars, plotVars>>

\* ------------------------------------- RelationshipCollection (pptx.opc.rels)
HasRId(rels, rId) == \E i \in 1..Len(rels) : rels[i].rId = rId

\* add_relationship: KeyConflict when rId is present, else the new
\* relationship goes last.
add_relationship(rels, reltype, target, rId, is_external) ==
  IF HasRId(rels, rId)
    THEN [status |-> "KeyConflict", rels |-> rels]
    ELSE [status |-> "ok", rels |-> Append(rels, Rel(rId, reltype, target, is_external))]

\* --------------------------------------------- Package._add_relationship
\* _add_relationship appending to the collection without the rId check.
_add_relationship_unchecked(p, reltype, target, rId, is_external) ==
  /\ p \in live
  /\ _rels' = [_rels EXCEPT ![p] = Append(@, Rel(rId, reltype, target, is_external))]
  /\ ret' = [op |-> "_add_relationship", pkg |-> p, arg |-> rId, status |-> "ok",
             val |-> 0, seq |-> <<>>]
  /\ UNCHANGED <<made, live, _instances, _relationships, cache, inits, first, part_attrs, fileVars, presVars, plotVars>>

_add_relationship(p, reltype, target, rId, is_external) ==
  /\ p \in live
  /\ LET r == add_relationship(_rels[p], reltype, target, rId, is_external)
     IN  /\ _rels' = [_rels EXCEPT ![p] = r.rels]
         /\ ret' = Result("_add_relationship", p, rId, r.status, 0, <<>>)
  /\ UNCHANGED <<made, live, _instances, _relationships, cache, inits, first, part_attrs, fileVars, presVars, plotVars>>

\* part._relationships.add_relationship(...) by application code, which is
\* how a part comes to refer to another part.
part_add_relationship(q, reltype, target, rId, is_external) ==
  /\ q \in DOMAIN _relationships
  /\ LET r == add_relationship(_relationships[q], reltype, target, rId, is_external)
     IN  /\ _relationships' = [_relationships EXCEPT ![q] = r.rels]
         /\ ret' = Result("part_add_relationship", q, rId, r.status, 0, <<>>)
  /\ UNCHANGED <<made, live, _instances, _rels, cache, inits, first, part_attrs, fileVars, presVars, plotVars>>

\* part_with_reltype: the target of the first relationship of reltype in
\* insertion order, KeyError when there is none.
RelsOfType(rels, reltype) == {i \in 1..Len(rels) : rels[i].reltype = reltype}
FirstOfType(rels, reltype) ==
  CHOOSE i \in RelsOfType(rels, reltype) : \A j \in RelsOfType(rels, reltype) : i <= j
part_with_reltype(rels, reltype) ==
  IF RelsOfType(rels, reltype) = {}
    THEN [status |-> "KeyError", value |-> Unset]
    ELSE [status |-> "ok", value |-> rels[FirstOfType(rels, reltype)].target]

\* _next_rId taken from the number of relationships alone.
_next_rId_by_count(rels) == Len(rels) + 1

\* The rId get_or_add generates: the first one no relationship of the
\* collection uses.
_next_rId(rels) == CHOOSE n \in 1..(Len(rels) + 1) :
                     /\ ~HasRId(rels, n)
                     /\ \A m \in 1..(n - 1) : HasRId(rels, m)

\* get_or_add: the existing relationship of reltype, else a new one under a
\* generated rId.  rel is the relationship returned.
get_or_add(rels, reltype, target) ==
  IF RelsOfType(rels, reltype) # {}
    THEN [rel |-> rels[FirstOfType(rels, reltype)], rels |-> rels]
    ELSE [rel |-> Rel(_next_rId(rels), reltype, target, FALSE),
          rels |-> add_relationship(rels, reltype, target, _next_rId(rels), FALSE).rels]

\* pkg._rels.get_or_add(reltype, target) called by application code.
rels_get_or_add(p, reltype, target) ==
  /\ p \in live
  /\ LET r == get_or_add(_rels[p], reltype, target)
     IN  /\ _rels' = [_rels EXCEPT ![p] = r.rels]
         /\ ret' = Result("get_or_add", p, reltype, "ok", r.rel.rId, <<target>>)
  /\ UNCHANGED <<made, live, _instances, _relationships, cache, inits, first, part_attrs, fileVars, presVars, plotVars>>

\* ------------------------------------------- the lazy initializers
\* Each returns what the decorated method returns or raises, with the root
\* collection and the part table as the method leaves them.
Outcome(status, value, rels, prels, attrs) ==
  [status |-> status, value |-> value, rels |-> rels, prels |-> prels,
   attrs |-> attrs]

\* core_properties without the try: the default part is made on every first
\* access.
core_properties_always_default(p) ==
  [status |-> "ok", value |-> Len(_relationships) + 1,
   rels |-> get_or_add(_rels[p], CORE_PROPERTIES, Len(_relationships) + 1).rels,
   prels |-> Append(_relationships, <<>>),
   attrs |-> Append(part_attrs, CorePropsAttrs)]

\* Package.core_properties (the decorated method).  CoreProperties._default()
\* is a new part object with no relationships.
core_properties(p) ==
  LET found == part_with_reltype(_rels[p], CORE_PROPERTIES)
      core_props == Len(_relationships) + 1
  IN  IF found.status = "ok"
        THEN Outcome("ok", found.value, _rels[p], _relationships, part_attrs)
        ELSE Outcome("ok", core_props,
                     get_or_add(_rels[p], CORE_PROPERTIES, core_props).rels,
                     Append(_relationships, <<>>),
                     Append(part_attrs, CorePropsAttrs))

\* presentation with the KeyError caught and None returned.
presentation_returns_none(p) ==
  LET found == part_with_reltype(_rels[p], OFFICE_DOCUMENT)
  IN  Outcome("ok", found.value, _rels[p], _relationships, part_attrs)

\* Package.presentation (the decorated method): the KeyError is not caught.
presentation(p) ==
  LET found == part_with_reltype(_rels[p], OFFICE_DOCUMENT)
  IN  Outcome(found.status, found.value, _rels[p], _relationships, part_attrs)

\* Package._images (the decorated method): a new ImageCollection, told from
\* an earlier one of the same Package by its number.
_images(p) ==
  Outcome("ok", inits[p]["_images"] + 1, _rels[p], _relationships, part_attrs)

Initializer(p, name) ==
  CASE name = "core_properties" -> core_properties(p)
    [] name = "presentation" -> presentation(p)
    [] name = "_images" -> _images(p)

\* ----------------------------------------------------------- lazyproperty
\* get_prop_value without the setattr: the value is computed on every access.
get_prop_value_nocache(p, name) ==
  /\ p \in live
  /\ LET r == Initializer(p, name)
     IN  /\ _rels' = [_rels EXCEPT ![p] = r.rels]
         /\ _relationships' = r.prels
         /\ part_attrs' = r.attrs
         /\ ret' = [op |-> name, pkg |-> p, arg |-> 0, status |-> r.status,
                    val |-> r.value, seq |-> <<>>]
         /\ IF r.status = "ok"
              THEN /\ inits' = [inits EXCEPT ![p][name] = IF @ < 2 THEN @ + 1 ELSE @]
                   /\ first' = [first EXCEPT ![p][name] = IF @ = Unset THEN r.value ELSE @]
              ELSE UNCHANGED <<inits, first>>
  /\ UNCHANGED <<made, live, _instances, cache, fileVars, presVars, plotVars>>

\* get_prop_value(obj) of the property lazyproperty builds for method name:
\* the cache attribute when it is set, else the method's value, cached
\* unless the method raised.
get_prop_value(p, name) ==
  /\ p \in live
  /\ IF cache[p][name] # Unset
       THEN /\ ret' = Result(name, p, 1, "ok", cache[p][name], <<>>)
            /\ UNCHANGED <<_rels, _relationships, part_attrs, cache, inits, first>>
       ELSE LET r == Initializer(p, name)
            IN  /\ _rels' = [_rels EXCEPT ![p] = r.rels]
                /\ _relationships' = r.prels
                /\ part_attrs' = r.attrs
                /\ ret' = Result(name, p, 0, r.status, r.value, <<>>)
                /\ IF r.status = "ok"
                     THEN /\ cache' = [cache EXCEPT ![p][name] = r.value]
                          /\ inits' = [inits EXCEPT ![p][name] = IF @ < 2 THEN @ + 1 ELSE @]
                          /\ first' = [first EXCEPT ![p][name] =
                                         IF @ = Unset THEN r.value ELSE @]
                     ELSE UNCHANGED <<cache, inits, first>>
  /\ UNCHANGED <<made, live, _instances, fileVars, presVars, plotVars>>

\* The parts a relationship of rels targets (external targets are no parts).
PartTargets(rels) ==
  {rels[i].target : i \in {j \in 1..Len(rels) : ~rels[j].is_external}}
\* The least set of parts holding S and closed under the parts' relationships.
RECURSIVE Closure(_)
Closure(S) ==
  LET T == S \cup UNION {PartTargets(_relationships[q]) : q \in S}
  IN  IF T = S THEN S ELSE Closure(T)
\* The parts reachable from the root relationships of Package p.
Reachable(p) == Closure(PartTargets(_rels[p]))
\* ------------------------------------------------- containers on disk
\* A container is [parts, rels, written]: the index of stored parts, each
\* [partname, content_type], and the relationship records, each
\* [source, rId, reltype, target, is_external] with partnames for source
\* (0 for the package root) and target (a URI when external).
SRel(source, rId, reltype, target, is_external) ==
  [source |-> source, rId |-> rId, reltype |-> reltype, target |-> target,
   is_external |-> is_external]

\* Position of the first stored part named name, 0 when there is none.
IndexOf(parts, name) ==
  IF \E i \in 1..Len(parts) : parts[i].partname = name
    THEN CHOOSE i \in 1..Len(parts) :
           /\ parts[i].partname = name
           /\ \A j \in 1..(i - 1) : parts[j].partname # name
    ELSE 0

\* Unmarshaller step 3 from record i on.  The part built for the stored part
\* at position n is part object base + n.  st is [status, root, prels, done]:
\* the root collection of the new Package, the part table so far and the
\* number of records added.
RECURSIVE _unmarshal_relationships(_, _, _, _)
_unmarshal_relationships(c, base, i, st) ==
  IF st.status # "ok" \/ i > Len(c.rels) THEN st
  ELSE
    LET srel == c.rels[i]
        spos == IndexOf(c.parts, srel.source)
        tpos == IndexOf(c.parts, srel.target)
        target == IF srel.is_external THEN srel.target ELSE base + tpos
        added == add_relationship(
                   IF srel.source = 0 THEN st.root ELSE st.prels[base + spos],
                   srel.reltype, target, srel.rId, srel.is_external)
    IN  IF (~srel.is_external /\ tpos = 0) \/ (srel.source # 0 /\ spos = 0)
          THEN [st EXCEPT !.status = "DanglingReference"]
        ELSE IF added.status # "ok"
          THEN [st EXCEPT !.status = added.status]
        ELSE IF srel.source = 0
          THEN _unmarshal_relationships(c, base, i + 1,
                 [st EXCEPT !.root = added.rels, !.done = i])
        ELSE _unmarshal_relationships(c, base, i + 1,
                 [st EXCEPT !.prels[base + spos] = added.rels, !.done = i])

\* Package.after_unmarshal: self._images.load(self._parts).  What matters
\* here is that _parts is computed over the graph just built.
after_unmarshal(prels, root) == PartsOf(prels, root)

\* Presentation.after_unmarshal doing nothing, as BasePart.after_unmarshal.
Presentation_after_unmarshal_nothing(rels, i, st) == st

\* Presentation.after_unmarshal from relationship i on: each slide-master
\* relationship's target part is added to self.slidemasters, the property
\* creating the collection when the attribute is missing.  st is
\* [status, has, parts]: whether the attribute exists, and the collection.
\* rel.target_part of an external relationship is no part and the hook raises.
RECURSIVE Presentation_after_unmarshal(_, _, _)
Presentation_after_unmarshal(rels, i, st) ==
  IF st.status # "ok" \/ i > Len(rels) THEN st
  ELSE IF rels[i].reltype # SLIDE_MASTER
    THEN Presentation_after_unmarshal(rels, i + 1, st)
  ELSE IF rels[i].is_external
    THEN [st EXCEPT !.status = "error", !.has = TRUE]
  ELSE Presentation_after_unmarshal(rels, i + 1,
         [st EXCEPT !.has = TRUE, !.parts = Append(@, rels[i].target)])

\* One step of a load, as the log of unmarshal records it: a part built
\* ("part"), a relationship record added ("rel") or an after_unmarshal hook
\* called ("hook").  obj is the position of the stored part or record, 0 for
\* the Package; seen is what _parts gave the Package's hook.
Event(kind, obj, seen) == [kind |-> kind, obj |-> obj, seen |-> seen]
NotSeen == [parts |-> <<>>, status |-> "none", fuel |-> 0]

\* Unmarshaller step 4 for the parts from position i on: the hook of each
\* constructed part, which for a Presentation is the method above and for
\* any other part does nothing.  st is [status, sm, events]: sm maps the new
\* Presentations that got a '_slidemasters' attribute to its collection.
RECURSIVE _after_unmarshal_parts(_, _, _, _, _)
_after_unmarshal_parts(c, base, prels, i, st) ==
  IF st.status # "ok" \/ i > Len(c.parts) THEN st
  ELSE
    LET h == IF c.parts[i].content_type = "presentation"
               THEN Presentation_after_unmarshal(prels[base + i], 1,
                      [status |-> "ok", has |-> FALSE, parts |-> <<>>])
               ELSE [status |-> "ok", has |-> FALSE, parts |-> <<>>]
    IN  _after_unmarshal_parts(c, base, prels, i + 1,
          [status |-> h.status,
           sm |-> IF h.has THEN ((base + i) :> h.parts) @@ st.sm ELSE st.sm,
           events |-> Append(st.events, Event("hook", i, NotSeen))])

\* Unmarshaller.unmarshal(pkg_reader, pkg, PartFactory): one part per stored
\* part (a repeated partname is fatal), the relationships, then the hooks of
\* the parts and of the Package.  events is the log of the steps made.
unmarshal(c) ==
  LET names == [i \in 1..Len(c.parts) |-> c.parts[i].partname]
      base == Len(_relationships)
      built == _relationships \o [i \in 1..Len(c.parts) |-> <<>>]
      partEvents == [i \in 1..Len(c.parts) |-> Event("part", i, NotSeen)]
      wired == _unmarshal_relationships(c, base, 1,
                 [status |-> "ok", root |-> <<>>, prels |-> built, done |-> 0])
      relEvents == [i \in 1..wired.done |-> Event("rel", i, NotSeen)]
      hooked == _after_unmarshal_parts(c, base, wired.prels, 1,
                  [status |-> "ok", sm |-> <<>>, events |-> partEvents \o relEvents])
      hook == after_unmarshal(wired.prels, wired.root)
      Failed(status, events) ==
        [status |-> status, root |-> <<>>, prels |-> built, sm |-> <<>>,
         events |-> events]
  IN  IF ~NoDup(names) THEN Failed("KeyConflict", <<>>)
      ELSE IF wired.status # "ok"
        THEN Failed(wired.status, partEvents \o relEvents)
      ELSE IF hooked.status # "ok"
        THEN Failed(hooked.status, hooked.events)
      ELSE [status |-> hook.status, root |-> wired.root, prels |-> wired.prels,
            sm |-> hooked.sm,
            events |-> Append(hooked.events, Event("hook", 0, hook))]

\* ---------------------------------------------------------- Package.open
\* open that hands the Package it constructed to the caller whatever the
\* unmarshalling did.
open_returns_partial(c, reopen) ==
  /\ made' = made + 1
  /\ _instances' = Append(_instances, made + 1)
  /\ live' = live \cup {made + 1}
  /\ _rels' = [_rels EXCEPT ![made + 1] = unmarshal(c).root]
  /\ _relationships' = unmarshal(c).prels
  /\ part_attrs' = part_attrs \o c.parts
  /\ ret' = [op |-> "open", pkg |-> 0, arg |-> reopen, status |-> unmarshal(c).status,
             val |-> made + 1, seq |-> <<c, unmarshal(c).events>>]
  /\ UNCHANGED <<cache, inits, first, fileVars, presVars, plotVars>>

\* open(pkg_file): pkg = cls() registers the new Package, unmarshal fills it
\* and runs the hooks (Package.after_unmarshal reads _images, which caches
\* the new ImageCollection), and pkg is returned.  When unmarshal raises, the
\* exception leaves open: nothing is returned, and the Package and the parts
\* built for it are unreferenced and collected, the weak reference staying
\* in the registry.  The result records the container read and the log of
\* the load (seq), the Package returned (val, 0 for none) and the error
\* raised (status).
open(c, reopen) ==
  LET p == made + 1
      u == unmarshal(c)
  IN  /\ made' = p
      /\ _instances' = Append(_instances, p)
      /\ IF u.status = "ok"
           THEN /\ live' = live \cup {p}
                /\ _rels' = [_rels EXCEPT ![p] = u.root]
                /\ _relationships' = u.prels
                /\ part_attrs' = part_attrs \o c.parts
                /\ cache' = [cache EXCEPT ![p]["_images"] = _images(p).value]
                /\ inits' = [inits EXCEPT ![p]["_images"] = 1]
                /\ first' = [first EXCEPT ![p]["_images"] = _images(p).value]
                /\ _slidemasters' = u.sm @@ _slidemasters
                /\ ret' = Result("open", 0, reopen, "ok", p, <<c, u.events>>)
           ELSE /\ ret' = Result("open", 0, reopen, u.status, 0, <<c, u.events>>)
                /\ UNCHANGED <<live, _rels, _relationships, part_attrs,
                               cache, inits, first, _slidemasters>>
      /\ UNCHANGED <<fileVars, _slides, plotVars>>

\* ------------------------------- Presentation.slidemasters and .slides
\* The property slidemasters of Presentation q: the '_slidemasters'
\* attribute, set to an empty PartCollection when it is missing.  arg is 1
\* when the attribute was there and seq is the collection returned.
slidemasters(q) ==
  /\ q \in DOMAIN _relationships
  /\ part_attrs[q].content_type = "presentation"
  /\ IF q \in DOMAIN _slidemasters
       THEN /\ ret' = Result("slidemasters", q, 1, "ok", 0, _slidemasters[q])
            /\ UNCHANGED _slidemasters
       ELSE /\ ret' = Result("slidemasters", q, 0, "ok", 0, <<>>)
            /\ _slidemasters' = (q :> <<>>) @@ _slidemasters
  /\ UNCHANGED <<made, live, _instances, _rels, _relationships, cache, inits,
                 first, part_attrs, fileVars, _slides, plotVars>>

\* The property slides of Presentation q: the '_slides' attribute, set when
\* missing to a SlideCollection that holds a reference to the part's own
\* relationship collection.  seq is that collection as it is now.
slides(q) ==
  /\ q \in DOMAIN _relationships
  /\ part_attrs[q].content_type = "presentation"
  /\ _slides' = _slides \cup {q}
  /\ ret' = Result("slides", q, IF q \in _slides THEN 1 ELSE 0, "ok", 0,
                   _relationships[q])
  /\ UNCHANGED <<made, live, _instances, _rels, _relationships, cache, inits,
                 first, part_attrs, fileVars, _slidemasters, plotVars>>

\* ---------------------------------------------------------- Package.save
\* The relationship records of one collection.
RelRecords(source, rels) ==
  [i \in 1..Len(rels) |->
     SRel(source, rels[i].rId, rels[i].reltype,
          IF rels[i].is_external THEN rels[i].target
          ELSE part_attrs[rels[i].target].partname,
          rels[i].is_external)]

\* The records of the collections of parts[i..], in that order.
RECURSIVE PartRelRecords(_, _)
PartRelRecords(parts, i) ==
  IF i > Len(parts) THEN <<>>
  ELSE RelRecords(part_attrs[parts[i]].partname, _relationships[parts[i]])
       \o PartRelRecords(parts, i + 1)

\* marshal(self): the parts _parts lists, and the records of the root
\* collection and of each listed part's collection.
marshal(p, parts) ==
  [parts |-> [i \in 1..Len(parts) |-> part_attrs[parts[i]]],
   rels |-> RelRecords(0, _rels[p]) \o PartRelRecords(parts, 1),
   written |-> TRUE]

\* The part graph of Package p as the round trip compares it: the partname
\* and content type of each reachable part, and the (source, rId, reltype,
\* target, is_external) tuples of the root and of each reachable part.
GraphOfIn(root, prels, attrs, reach) ==
  [parts |-> {attrs[q] : q \in reach},
   rels |-> {SRel(0, root[i].rId, root[i].reltype,
                  IF root[i].is_external THEN root[i].target
                  ELSE attrs[root[i].target].partname,
                  root[i].is_external) : i \in 1..Len(root)}
            \cup UNION {
              {SRel(attrs[q].partname, prels[q][i].rId, prels[q][i].reltype,
                    IF prels[q][i].is_external THEN prels[q][i].target
                    ELSE attrs[prels[q][i].target].partname,
                    prels[q][i].is_external) : i \in 1..Len(prels[q])}
              : q \in reach}]

GraphOf(p) == GraphOfIn(_rels[p], _relationships, part_attrs, Reachable(p))

\* save(file): the walk of _parts, then a container with what it found.  An
\* exception of the walk leaves save and nothing is written.
save(p) ==
  /\ p \in live
  /\ IF _parts(p).status = "ok"
       THEN /\ pkg_file' = marshal(p, _parts(p).parts)
            /\ saved' = GraphOf(p)
            /\ ret' = Result("save", p, 0, "ok", 0, <<>>)
       ELSE /\ ret' = Result("save", p, 0, _parts(p).status, 0, <<>>)
            /\ UNCHANGED fileVars
  /\ UNCHANGED <<made, live, _instances, _rels, _relationships, cache, inits,
                 first, part_attrs, presVars, plotVars>>

\* A target the application passes: a part object with is_external False,
\* or a URI with is_external True.
Targets == {<<q, FALSE>> : q \in DOMAIN _relationships} \cup {<<URI, TRUE>>}

\* The next rId in sequence, as callers that only build the graph use.
NextSeqRId(rels) == Len(rels) + 1

\* ------------------------------------------------ the registry alone
\* Packages are constructed and collected and instances() is called.
NextReg ==
  \/ (made < MaxPkgs /\ New)
  \/ \E p \in PkgIds : Collect(p)
  \/ instances

SpecReg == Init /\ [][NextReg]_vars

\* Packages constructed and since collected.
Collected == (1..made) \ live
Increasing(s) == \A i, j \in 1..Len(s) : i < j => s[i] < s[j]

\* C3: once a Package has been collected, the tuple a call of instances()
\* returns does not include it, and when the call has returned the registry
\* holds no entry for it.
C3_CollectedNotListed ==
  ret.op = "instances" =>
    \A p \in Collected : ~InSeq(p, ret.seq) /\ ~InSeq(p, _instances)

C3_Witness ==
  /\ ret.op = "instances"
  /\ Collected # {}
  /\ ret.seq # <<>>

\* C4: instances() returns exactly the live Packages, each once, in
\* construction order; the registry always lists every live Package once
\* and in construction order; and a call of instances() removes only
\* entries of collected Packages, keeping the live entries and their order.
C4_Listed ==
  /\ Increasing(SeqFilter(_instances, live))
  /\ SeqSet(SeqFilter(_instances, live)) = live
  /\ ret.op = "instances" =>
       /\ Increasing(ret.seq)
       /\ SeqSet(ret.seq) = live

C4_PruneStep ==
  ret'.op = "instances" =>
    /\ SeqFilter(_instances', live) = SeqFilter(_instances, live)
    /\ SeqSet(_instances') \subseteq SeqSet(_instances)
    /\ live' = live

C4_LiveInOrder == [](C4_Listed) /\ [][C4_PruneStep]_vars

C4_Witness ==
  /\ ret.op = "instances"
  /\ Len(ret.seq) >= 2
  /\ \E p \in Collected : p < ret.seq[1]

\* --------------------------------------------- one Package's part graph
\* One Package is constructed, the application wires relationships into its
\* root collection and into the parts' collections, and _parts is read.
NextWalk ==
  \/ (made = 0 /\ New)
  \/ (TotalRels < MaxRels /\ \E p \in PkgIds, t \in Targets :
        _add_relationship(p, SLIDE_MASTER, t[1], NextSeqRId(_rels[p]), t[2]))
  \/ (TotalRels < MaxRels /\ \E q \in DOMAIN _relationships, t \in Targets :
        part_add_relationship(q, SLIDE_MASTER, t[1],
                              NextSeqRId(_relationships[q]), t[2]))
  \/ \E p \in PkgIds : parts_access(p)

SpecWalk == Init /\ [][NextWalk]_vars

\* An external relationship lies on the way: in the root collection or in
\* the collection of a reachable part.
ExternalReachable(p) ==
  \/ \E i \in 1..Len(_rels[p]) : _rels[p][i].is_external
  \/ \E q \in Reachable(p) :
       \E i \in 1..Len(_relationships[q]) : _relationships[q][i].is_external
\* Some reachable part refers back to a part that was visited before it.
HasCycle(p) ==
  \E q \in Reachable(p) : q \in Closure(PartTargets(_relationships[q]))

\* C1: for every relationship graph, _parts returns a list that holds every
\* part reachable from the root relationships exactly once and no other.
C1_ReachableOnce ==
  ret.op = "_parts" =>
    /\ ret.status = "ok"
    /\ NoDup(ret.seq)
    /\ SeqSet(ret.seq) = Reachable(ret.pkg)

\* What the walk does do: it always ends within one loop iteration per
\* relationship (cycles, self-loops and shared parts included); it raises
\* exactly when an external relationship lies on the way; and a list it
\* returns holds the reachable parts, each once.
Walk_EndsAndExactWithoutExternal ==
  \A p \in live :
    /\ _parts(p).status # "cutoff"
    /\ _parts(p).status = "error" <=> ExternalReachable(p)
    /\ _parts(p).status = "ok" =>
         /\ NoDup(_parts(p).parts)
         /\ SeqSet(_parts(p).parts) = Reachable(p)

Walk_CycleWitness ==
  /\ ret.op = "_parts"
  /\ ret.status = "ok"
  /\ HasCycle(ret.pkg)
  /\ Len(ret.seq) = 2

\* --------------------------------------- several Packages, shared parts
NextShared ==
  \/ (made < SharedPkgs /\ New)
  \/ \E p \in PkgIds : Collect(p)
  \/ \E q \in DOMAIN _relationships : containing(q)
  \/ (TotalRels < MaxSharedRels /\ \E p \in PkgIds, t \in Targets :
        _add_relationship(p, SLIDE_MASTER, t[1], NextSeqRId(_rels[p]), t[2]))
  \/ (TotalRels < MaxSharedRels /\ \E q \in DOMAIN _relationships, t \in Targets :
        part_add_relationship(q, SLIDE_MASTER, t[1],
                              NextSeqRId(_relationships[q]), t[2]))

Spec == Init /\ [][NextShared]_vars

\* The live Packages whose part graph holds part q.
Holders(q) == {p \in live : q \in Reachable(p)}
Least(S) == CHOOSE x \in S : \A y \in S : x <= y

\* What C5 says of the result of containing(part).
ContainingAsClaimed ==
  ret.op = "containing" =>
    /\ ret.status \in {"ok", "KeyError"}
    /\ ret.status = "KeyError" <=> Holders(ret.arg) = {}
    /\ ret.status = "ok" => ret.val = Least(Holders(ret.arg))

\* containing() leaves every relationship collection as it was.
ContainingFrame ==
  ret'.op = "containing" =>
    /\ _rels' = _rels
    /\ _relationships' = _relationships

\* C5: containing(part) returns the earliest-constructed live Package whose
\* part graph holds part, raises KeyError exactly when no live Package's
\* part graph holds it, and changes no relationship collection.
C5_Containing == [](ContainingAsClaimed) /\ [][ContainingFrame]_vars

\* What containing() does do: the claim holds whenever no live Package has
\* an external relationship on the way of its walk.
Containing_WithoutExternal ==
  (\A p \in live : ~ExternalReachable(p)) => ContainingAsClaimed

Containing_SharedWitness ==
  /\ ret.op = "containing"
  /\ ret.status = "ok"
  /\ Cardinality(Holders(ret.arg)) = 2
  /\ ret.val = 1

\* --------------------------------- lazy properties and the root collection
\* Packages are constructed; the application adds relationships to a root
\* collection under rIds of its choice, calls get_or_add on it, and reads the
\* lazy properties.
LazyReltypes == {CORE_PROPERTIES, OFFICE_DOCUMENT}

NextLazy ==
  \/ (made = 0 /\ New)
  \/ (TotalRels < MaxRels /\
        \E p \in PkgIds, rt \in LazyReltypes, t \in Targets, rId \in 1..MaxRId :
          _add_relationship(p, rt, t[1], rId, t[2]))
  \/ (TotalRels < MaxRels /\ \E p \in PkgIds, rt \in LazyReltypes, q \in AppParts :
        rels_get_or_add(p, rt, q))
  \/ \E p \in PkgIds, name \in LazyNames : get_prop_value(p, name)

SpecLazy == Init /\ [][NextLazy]_vars

\* C2: for each lazy property of each Package, the method returns normally
\* at most once, it has done so exactly when the property has returned a
\* value, and every access that returns, returns the object the first
\* access returned.
C2_InitOnceSameObject ==
  /\ \A p \in live, n \in LazyNames :
       /\ inits[p][n] <= 1
       /\ inits[p][n] = 1 <=> first[p][n] # Unset
  /\ (ret.op \in LazyNames /\ ret.status = "ok") =>
       /\ inits[ret.pkg][ret.op] = 1
       /\ ret.val = first[ret.pkg][ret.op]

\* A repeated access of _images, answered from the cache.
C2_Witness ==
  /\ ret.op = "_images"
  /\ ret.arg = 1
  /\ ret.val = first[ret.pkg]["_images"]

\* Positions of the relationships of reltype rt in rels.
OfType(rels, rt) == {i \in 1..Len(rels) : rels[i].reltype = rt}
RIds(rels) == {rels[i].rId : i \in 1..Len(rels)}

\* One access of core_properties on Package ret'.pkg.
C6_Step ==
  ret'.op = "core_properties" =>
    LET p == ret'.pkg
        before == _rels[p]
        after == _rels'[p]
        cps == OfType(before, CORE_PROPERTIES)
    IN  /\ ret'.status = "ok"
        /\ IF cache[p]["core_properties"] # Unset
             THEN \* a later access: nothing is added
                  /\ after = before
                  /\ _relationships' = _relationships
                  /\ ret'.val = first[p]["core_properties"]
           ELSE IF cps = {}
             THEN \* recovery: a new part, and one relationship to it
                  /\ _relationships' = Append(_relationships, <<>>)
                  /\ ret'.val = Len(_relationships')
                  /\ Len(after) = Len(before) + 1
                  /\ SubSeq(after, 1, Len(before)) = before
                  /\ after[Len(after)].reltype = CORE_PROPERTIES
                  /\ after[Len(after)].target = ret'.val
                  /\ ~after[Len(after)].is_external
                  /\ after[Len(after)].rId \notin RIds(before)
           ELSE   \* the first core-properties relationship decides
                  /\ after = before
                  /\ _relationships' = _relationships
                  /\ \E i \in cps : /\ \A j \in cps : i <= j
                                    /\ ret'.val = before[i].target

\* C6: the first access of core_properties with no CORE_PROPERTIES
\* relationship in the root collection creates a default part, adds exactly
\* one CORE_PROPERTIES relationship to it and returns it; with such a
\* relationship present it returns the target of the first one and changes
\* nothing; and no later access adds a relationship.
C6_CorePropertiesRecovery == [][C6_Step]_vars

\* The recovery happened in a collection that held other relationships.
C6_Witness ==
  /\ ret.op = "core_properties"
  /\ ret.arg = 0
  /\ ret.val > NParts
  /\ Len(_rels[ret.pkg]) >= 2
  /\ Cardinality(OfType(_rels[ret.pkg], CORE_PROPERTIES)) = 1

\* Every collection holds at most one relationship per rId.
UniqueRIds ==
  /\ \A p \in live : Cardinality(RIds(_rels[p])) = Len(_rels[p])
  /\ \A q \in DOMAIN _relationships :
       Cardinality(RIds(_relationships[q])) = Len(_relationships[q])

\* One call of Package._add_relationship with rId ret'.arg.
C9_Step ==
  ret'.op = "_add_relationship" =>
    LET p == ret'.pkg
    IN  IF ret'.arg \in RIds(_rels[p])
          THEN /\ ret'.status = "KeyConflict"
               /\ _rels' = _rels
          ELSE /\ ret'.status = "ok"
               /\ Len(_rels'[p]) = Len(_rels[p]) + 1
               /\ _rels'[p][Len(_rels'[p])].rId = ret'.arg

\* C9: an insertion under an rId the collection already holds fails with
\* KeyConflict and leaves the collection unchanged, and every collection
\* holds exactly one relationship per rId in every reachable state.
C9_KeyConflict == [](UniqueRIds) /\ [][C9_Step]_vars

C9_Witness ==
  /\ ret.op = "_add_relationship"
  /\ ret.status = "KeyConflict"
  /\ Len(_rels[ret.pkg]) >= 1

\* Two calls of get_or_add in a row on one collection with one reltype.
SecondGetOrAdd ==
  /\ ret.op = "get_or_add"
  /\ ret'.op = "get_or_add"
  /\ ret'.pkg = ret.pkg
  /\ ret'.arg = ret.arg

\* After a call of get_or_add the collection holds exactly one relationship
\* of the reltype asked for.
ExactlyOneAfterGetOrAdd ==
  ret.op = "get_or_add" =>
    Cardinality(OfType(_rels[ret.pkg], ret.arg)) = 1

\* The second of two calls returns the relationship the first returned.
SameRelationshipTwice == SecondGetOrAdd => ret'.val = ret.val

\* A call that creates a relationship gives it an rId the collection did
\* not hold.
FreshRIdWhenCreated ==
  (ret'.op = "get_or_add" /\ Len(_rels'[ret'.pkg]) > Len(_rels[ret'.pkg])) =>
    /\ ret'.val \notin RIds(_rels[ret'.pkg])
    /\ _rels'[ret'.pkg][Len(_rels'[ret'.pkg])].rId = ret'.val

\* C10 as stated: two calls of get_or_add with one reltype return the same
\* Relationship, the collection holds exactly one relationship of that
\* reltype afterwards, and a generated rId is new to the collection.
C10_ExactlyOneOfReltype ==
  /\ [](ExactlyOneAfterGetOrAdd)
  /\ [][SameRelationshipTwice /\ FreshRIdWhenCreated]_vars

\* One call of get_or_add: with a relationship of the reltype present the
\* first one is returned and nothing changes; with none, exactly one is
\* appended, to the target passed, and returned.
GetOrAddStep ==
  ret'.op = "get_or_add" =>
    LET before == _rels[ret'.pkg]
        after == _rels'[ret'.pkg]
        had == OfType(before, ret'.arg)
    IN  IF had # {}
          THEN /\ after = before
               /\ \E i \in had : /\ \A j \in had : i <= j
                                 /\ ret'.val = before[i].rId
          ELSE /\ Len(after) = Len(before) + 1
               /\ SubSeq(after, 1, Len(before)) = before
               /\ after[Len(after)].reltype = ret'.arg
               /\ after[Len(after)].target = ret'.seq[1]
               /\ Cardinality(OfType(after, ret'.arg)) = 1

\* C10 as amended: two calls of get_or_add with one reltype return the same
\* Relationship and the second leaves the collection unchanged; a call
\* creates a relationship only when the collection holds none of the
\* reltype, and the collection then holds exactly one; a generated rId is
\* new to the collection.
C10_NoDuplicateCreated ==
  [][/\ GetOrAddStep
     /\ SameRelationshipTwice
     /\ (SecondGetOrAdd => _rels' = _rels)
     /\ FreshRIdWhenCreated]_vars

\* A call that asked for another target got the existing relationship back,
\* whose rId was generated into a gap below an rId the caller had chosen.
C10_Witness ==
  /\ ret.op = "get_or_add"
  /\ \E i \in 1..Len(_rels[ret.pkg]) :
       /\ _rels[ret.pkg][i].rId = ret.val
       /\ _rels[ret.pkg][i].target # ret.seq[1]
       /\ i > 1
       /\ _rels[ret.pkg][i].rId < _rels[ret.pkg][1].rId

\* ----------------------------------------------------- open and save
\* The containers found on disk.  Their stored parts are named 1..k, with
\* one name repeated in the index when dup is not 0; a record's source is
\* the root or a stored part, its target a stored part, the missing part
\* k + 1, or a URI.  Records are grouped by source, root first, numbered
\* rId 1, 2, ... within a source; the root's are office-document
\* relationships and a part's are slide-master relationships.
FileEnds(k) ==
  {<<src, tgt>> : src \in 0..k, tgt \in (1..(k + 1)) \cup {URI}}
RECURSIVE FileEndSeqs(_, _)
FileEndSeqs(k, n) ==
  IF n = 0 THEN {<<>>}
  ELSE FileEndSeqs(k, n - 1) \cup
       {Append(s, e) : s \in {t \in FileEndSeqs(k, n - 1) : Len(t) = n - 1},
                       e \in FileEnds(k)}
Grouped(ends) == \A i \in 1..(Len(ends) - 1) : ends[i][1] <= ends[i + 1][1]
FileRecords(ends) ==
  [i \in 1..Len(ends) |->
     SRel(ends[i][1],
          Cardinality({j \in 1..i : ends[j][1] = ends[i][1]}),
          IF ends[i][1] = 0 THEN OFFICE_DOCUMENT ELSE SLIDE_MASTER,
          ends[i][2], ends[i][2] = URI)]
FileIndex(k, dup) ==
  [i \in 1..k |-> Attrs(i, ContentTypeOf(i))]
  \o (IF dup = 0 THEN <<>> ELSE <<Attrs(dup, ContentTypeOf(dup))>>)
FileContainers ==
  {[parts |-> FileIndex(k, dup), rels |-> FileRecords(ends), written |-> TRUE] :
     <<k, dup, ends>> \in
       UNION {{<<k, dup, ends>> : dup \in 0..k,
                                  ends \in {e \in FileEndSeqs(k, MaxFileRels) : Grouped(e)}}
              : k \in 0..MaxFileParts}}

\* What the application adds after a load: one of its own parts, or a URI.
AppTargets == {<<q, FALSE>> : q \in AppParts} \cup {<<URI, TRUE>>}

\* A container is opened; right after the load the application may add one
\* relationship to the root collection, and it may read core_properties;
\* then the Package is saved and the container it wrote is opened again.
NextLoad ==
  \/ (made = 0 /\ \E c \in FileContainers : open(c, 0))
  \/ (made = 1 /\ pkg_file.written /\ open(pkg_file, 1))
  \/ (ret.op = "open" /\ ret.status = "ok" /\
        \E t \in AppTargets, rId \in 1..MaxRId :
          _add_relationship(1, SLIDE_MASTER, t[1], rId, t[2]))
  \/ (~pkg_file.written /\ get_prop_value(1, "core_properties"))
  \/ (~pkg_file.written /\ save(1))

SpecLoad == Init /\ [][NextLoad]_vars

\* The container the last save wrote has just been opened again.
Reopened == ret.op = "open" /\ ret.arg = 1

\* C7: for any loaded Package, save succeeds and opening the saved container
\* yields a part graph with the same partnames and content types and the
\* same (source, rId, reltype, target, is_external) tuples as the Package
\* that was saved.
C7_RoundTrip ==
  /\ ret.op = "save" => ret.status = "ok"
  /\ Reopened => (ret.status = "ok" /\ GraphOf(ret.val) = saved)

\* What the round trip does do: a save that succeeds is read back to the
\* graph that was saved.  A save fails when an external relationship lies on
\* the way of the walk.
RoundTrip_OfWrittenContainer ==
  /\ Reopened => (ret.status = "ok" /\ GraphOf(ret.val) = saved)
  /\ ret.op = "save" => (ret.status = "ok" <=> ~ExternalReachable(ret.pkg))

RoundTrip_Witness ==
  /\ Reopened
  /\ ret.status = "ok"
  /\ Cardinality(saved.parts) >= 3
  /\ Cardinality(saved.rels) >= 3

\* A record of container c names a target partname that no stored part has.
DanglingTarget(c) ==
  \E i \in 1..Len(c.rels) :
    ~c.rels[i].is_external /\ IndexOf(c.parts, c.rels[i].target) = 0

\* The stored-parts index of container c lists a partname twice.
DuplicatePartname(c) ==
  ~NoDup([i \in 1..Len(c.parts) |-> c.parts[i].partname])

\* No Package came out of the open just made: none was returned, and the one
\* constructed for it is not alive, so that instances() does not list it and
\* no collection of it exists.
NothingLoaded ==
  /\ ret.val = 0
  /\ made \notin live
  /\ _rels[made] = <<>>

Open_DuplicateWitness ==
  /\ ret.op = "open"
  /\ ret.status = "KeyConflict"
  /\ DuplicatePartname(ret.seq[1])

\* ------------------------------------------------ the hooks of a load
\* The positions of the stored parts of container c that its records reach
\* from the package root, external records leading nowhere.
RECURSIVE FileClosure(_, _)
FileClosure(c, S) ==
  LET T == S \cup {IndexOf(c.parts, c.rels[i].target) :
                     i \in {j \in 1..Len(c.rels) :
                              /\ ~c.rels[j].is_external
                              /\ \/ c.rels[j].source = 0
                                 \/ IndexOf(c.parts, c.rels[j].source) \in S}}
  IN  IF T = S THEN S ELSE FileClosure(c, T)
FileReachable(c) == FileClosure(c, {})

\* A container without the structural defects that abort a load has just
\* been opened.
SoundOpen ==
  /\ ret.op = "open"
  /\ ~DuplicatePartname(ret.seq[1])
  /\ ~DanglingTarget(ret.seq[1])

StoresExternal(c) == \E i \in 1..Len(c.rels) : c.rels[i].is_external

\* The log ev of a load of container c shows every part built and every
\* record added, then exactly one hook call for each part and one for the
\* Package, whose _parts lists the whole part graph of the container.
HooksOnceAfterGraph(c, ev, base) ==
  LET At(kind) == {k \in 1..Len(ev) : ev[k].kind = kind}
      HooksOf(obj) == {k \in At("hook") : ev[k].obj = obj}
  IN  /\ {ev[k].obj : k \in At("part")} = 1..Len(c.parts)
      /\ {ev[k].obj : k \in At("rel")} = 1..Len(c.rels)
      /\ \A obj \in 0..Len(c.parts) : Cardinality(HooksOf(obj)) = 1
      /\ \A h \in At("hook"), k \in At("part") \cup At("rel") : k < h
      /\ \A h \in HooksOf(0) :
           /\ ev[h].seen.status = "ok"
           /\ {q - base : q \in SeqSet(ev[h].seen.parts)} = FileReachable(c)
           /\ NoDup(ev[h].seen.parts)

\* C11: in a load, after_unmarshal is called exactly once on every
\* constructed part and on the Package, never before all stored parts are
\* built and all relationship records added, and the _parts that
\* Package.after_unmarshal reads is the complete part graph of the container.
C11_HooksAfterFullGraph ==
  SoundOpen =>
    HooksOnceAfterGraph(ret.seq[1], ret.seq[2],
                        Len(_relationships) -
                          (IF ret.status = "ok" THEN Len(ret.seq[1].parts) ELSE 0))

\* What the load does do: the same, for the containers that store no
\* external relationship.  With one, a hook raises and the load is aborted.
Hooks_WithoutExternal ==
  (SoundOpen /\ ~StoresExternal(ret.seq[1])) =>
    /\ ret.status = "ok"
    /\ HooksOnceAfterGraph(ret.seq[1], ret.seq[2],
                           Len(_relationships) - Len(ret.seq[1].parts))

\* A load of two parts and two records, one part out of reach of the root.
Hooks_Witness ==
  /\ SoundOpen
  /\ ret.status = "ok"
  /\ Len(ret.seq[1].parts) = 2
  /\ Len(ret.seq[1].rels) = 2
  /\ Cardinality(FileReachable(ret.seq[1])) = 1

\* ------------------------------------------- a Presentation's collections
\* A container is opened; the application then adds a slide-master
\* relationship to a Presentation, loaded or its own, and reads slidemasters
\* of a Presentation, once or again, and then slides of one.
NextPres ==
  \/ (made = 0 /\ \E c \in FileContainers : open(c, 0))
  \/ (ret.op = "open" /\ ret.status = "ok" /\ TotalRels < MaxRels /\
        \E q \in DOMAIN _relationships, t \in AppTargets :
          /\ part_attrs[q].content_type = "presentation"
          /\ part_add_relationship(q, SLIDE_MASTER, t[1],
                                   NextSeqRId(_relationships[q]), t[2]))
  \/ (made = 1 /\
        \E q \in DOMAIN _relationships :
          /\ \/ ret.op \in {"open", "part_add_relationship"}
             \/ (ret.op = "slidemasters" /\ ret.pkg = q)
          /\ slidemasters(q))
  \/ (made = 1 /\
        \E q \in DOMAIN _relationships :
          /\ \/ ret.op \in {"open", "part_add_relationship", "slidemasters"}
             \/ (ret.op = "slides" /\ ret.pkg = q)
          /\ slides(q))

SpecPres == Init /\ [][NextPres]_vars

\* The targets of the slide-master relationships of a collection.
SlideMasterTargets(rels) ==
  {rels[i].target : i \in RelsOfType(rels, SLIDE_MASTER)}

\* The parts the load just made built.
Loaded ==
  (Len(_relationships) - Len(ret.seq[1].parts) + 1)..Len(_relationships)

\* C12 as stated: no step of a load creates slidemasters or slides, and the
\* first access to slidemasters yields the targets of the presentation's
\* slide-master relationships as they are at that access.
C12_BuiltOnFirstAccess ==
  /\ (ret.op = "open" /\ ret.status = "ok") =>
       \A q \in Loaded : q \notin DOMAIN _slidemasters /\ q \notin _slides
  /\ (ret.op = "slidemasters" /\ ret.arg = 0) =>
       SeqSet(ret.seq) = SlideMasterTargets(_relationships[ret.pkg])

\* After a load that completed, the Presentations with a slide-master
\* relationship have a slidemasters collection holding the targets of those
\* relationships, no other part has one, and no part has slides.
LoadedCollections ==
  (ret.op = "open" /\ ret.status = "ok") =>
    \A q \in Loaded :
      /\ q \notin _slides
      /\ q \in DOMAIN _slidemasters <=>
           /\ part_attrs[q].content_type = "presentation"
           /\ SlideMasterTargets(_relationships[q]) # {}
      /\ q \in DOMAIN _slidemasters =>
           SeqSet(_slidemasters[q]) = SlideMasterTargets(_relationships[q])

\* An access to slidemasters returns the collection the part has, or a new
\* empty one, whatever the relationships are; an access to slides creates
\* the collection once, over the part's live relationships; and nothing
\* else changes a collection a part has.
CollectionsStep ==
  /\ ret'.op = "slidemasters" =>
       /\ ret'.seq = (IF ret'.pkg \in DOMAIN _slidemasters
                        THEN _slidemasters[ret'.pkg] ELSE <<>>)
       /\ ret'.arg = (IF ret'.pkg \in DOMAIN _slidemasters THEN 1 ELSE 0)
       /\ _slidemasters'[ret'.pkg] = ret'.seq
  /\ ret'.op = "slides" =>
       /\ ret'.arg = (IF ret'.pkg \in _slides THEN 1 ELSE 0)
       /\ _slides' = _slides \cup {ret'.pkg}
       /\ ret'.seq = _relationships'[ret'.pkg]
  /\ \A q \in DOMAIN _slidemasters :
       q \in DOMAIN _slidemasters' /\ _slidemasters'[q] = _slidemasters[q]
  /\ ret'.op # "slides" => _slides' = _slides

\* C12, amended: slides is built on first access and by no step of a load;
\* slidemasters is created and filled by Presentation.after_unmarshal during
\* the load, and an access returns it as it is or creates it empty.
C12_FilledByLoad == [](LoadedCollections) /\ [][CollectionsStep]_vars

\* A loaded Presentation was given a slide-master relationship after the
\* load, and slidemasters, read afterwards, does not hold its target.
C12_Witness ==
  /\ ret.op = "slidemasters"
  /\ ret.arg = 1
  /\ ret.pkg > NParts
  /\ ret.seq # <<>>
  /\ SeqSet(ret.seq) # SlideMasterTargets(_relationships[ret.pkg])

\* ------------------------------------------------ the order of the walk
\* The application holds OrderParts part objects, constructs one Package,
\* wires relationships and reads _parts.
InitOrder ==
  /\ made = 0
  /\ live = {}
  /\ _instances = <<>>
  /\ _rels = [p \in PkgIds |-> <<>>]
  /\ _relationships = [q \in 1..OrderParts |-> <<>>]
  /\ cache = [p \in PkgIds |-> NoCache]
  /\ inits = [p \in PkgIds |-> NoInits]
  /\ first = [p \in PkgIds |-> NoCache]
  /\ part_attrs = [q \in 1..OrderParts |-> AppPartAttrs(q)]
  /\ pkg_file = NoFile
  /\ saved = NoGraph
  /\ _slidemasters = <<>>
  /\ _slides = {}
  /\ dLbls = [pl \in Plots |-> None]
  /\ ret = NoResult

NextOrder ==
  \/ (made = 0 /\ New)
  \/ (TotalRels < OrderRels /\ \E t \in Targets :
        _add_relationship(1, SLIDE_MASTER, t[1], NextSeqRId(_rels[1]), t[2]))
  \/ (TotalRels < OrderRels /\ \E q \in DOMAIN _relationships, t \in Targets :
        part_add_relationship(q, SLIDE_MASTER, t[1],
                              NextSeqRId(_relationships[q]), t[2]))
  \/ parts_access(1)

SpecOrder == InitOrder /\ [][NextOrder]_vars

\* The parts reached from the parts S without passing through a part of V.
RECURSIVE ClosureAvoiding(_, _)
ClosureAvoiding(S, V) ==
  LET T == S \cup (UNION {PartTargets(_relationships[q]) : q \in S} \ V)
  IN  IF T = S THEN S ELSE ClosureAvoiding(T, V)

\* What lies below the part at position k of the list L: the parts reachable
\* from it that were not listed before it.
Below(L, k) == ClosureAvoiding({L[k]}, {L[j] : j \in 1..(k - 1)})

PosIn(L, x) == CHOOSE k \in 1..Len(L) : L[k] = x

\* The collection C, whose walk starts when L[1..s] are listed, is followed
\* in insertion order: its first target not yet listed comes next, and of
\* two of its targets not yet listed the later one is listed first only
\* below an earlier target of C.
InInsertionOrder(L, C, s) ==
  LET Listed == {L[j] : j \in 1..s}
      Fresh == {i \in 1..Len(C) : C[i].target \notin Listed}
  IN  /\ \A i \in Fresh :
           (\A m \in Fresh : i <= m) => (s < Len(L) /\ L[s + 1] = C[i].target)
      /\ \A i, j \in Fresh :
           (i < j /\ C[i].target # C[j].target) =>
             \/ PosIn(L, C[i].target) < PosIn(L, C[j].target)
             \/ \E m \in Fresh :
                  /\ m < i
                  /\ C[j].target \in Below(L, PosIn(L, C[m].target))

\* L is the depth-first pre-order of the graph under the root collection:
\* each part is listed after a collection that names it, every collection is
\* followed in insertion order, and what lies below a part comes right
\* after it.
PreOrder(L, root) ==
  /\ InInsertionOrder(L, root, 0)
  /\ \A k \in 1..Len(L) :
       /\ L[k] \in PartTargets(root) \cup
                   UNION {PartTargets(_relationships[L[j]]) : j \in 1..(k - 1)}
       /\ InInsertionOrder(L, _relationships[L[k]], k)
       /\ k + Cardinality(Below(L, k)) - 1 <= Len(L)
       /\ {L[j] : j \in k..(k + Cardinality(Below(L, k)) - 1)} = Below(L, k)

ListedInPreOrder ==
  (ret.op = "_parts" /\ ret.status = "ok") => PreOrder(ret.seq, _rels[ret.pkg])

\* Two calls with no change of the graph between them return the same list.
SameOrderAgain ==
  (ret.op = "_parts" /\ ret'.op = "_parts" /\ ret'.pkg = ret.pkg
     /\ _rels' = _rels /\ _relationships' = _relationships) =>
    ret'.seq = ret.seq

\* C13: _parts lists the parts in depth-first pre-order, each collection
\* followed in insertion order from the root collection, a part at its first
\* discovery and all that lies below it before the targets of the later
\* relationships of the collection that led to it; the order is the same on
\* every call while the graph is unchanged.
C13_DepthFirstPreOrder == [](ListedInPreOrder) /\ [][SameOrderAgain]_vars

\* The root leads to two parts and the first of them to a third, which is
\* listed between them.
C13_Witness ==
  /\ ret.op = "_parts"
  /\ ret.status = "ok"
  /\ Len(ret.seq) = 3
  /\ Len(_rels[ret.pkg]) = 2
  /\ ret.seq[1] = _rels[ret.pkg][1].target
  /\ ret.seq[3] = _rels[ret.pkg][2].target
  /\ ret.seq[2] \in PartTargets(_relationships[ret.seq[1]])

\* --------------------------------------- the cache of Package.presentation
\* One step, seen from the cache of presentation: a cached part stays
\* whatever is done, and an access returns the cached part, or, with nothing
\* cached, runs the method, which raises and caches nothing when the root
\* collection has no office-document relationship and otherwise returns and
\* caches the target of the first one.
PresentationStep ==
  /\ \A p \in live :
       cache[p]["presentation"] # Unset =>
         cache'[p]["presentation"] = cache[p]["presentation"]
  /\ ret'.op = "presentation" =>
       LET p == ret'.pkg
           docs == OfType(_rels[p], OFFICE_DOCUMENT)
       IN  IF cache[p]["presentation"] # Unset
             THEN /\ ret'.status = "ok"
                  /\ ret'.arg = 1
                  /\ ret'.val = cache[p]["presentation"]
           ELSE IF docs = {}
             THEN /\ ret'.status = "KeyError"
                  /\ cache'[p]["presentation"] = Unset
           ELSE /\ ret'.status = "ok"
                /\ ret'.arg = 0
                /\ \E i \in docs :
                     /\ \A j \in docs : i <= j
                     /\ ret'.val = _rels[p][i].target
                /\ cache'[p]["presentation"] = ret'.val

\* C14: a cached value is never invalidated, and an initializer that raised
\* cached nothing: once presentation has returned a part every later access
\* returns it, also after office-document relationships are added; after a
\* first access that failed for want of such a relationship, an access made
\* once one is added runs the method again and returns its target.
C14_NoInvalidation == [][PresentationStep]_vars

\* One Package; presentation is read, and only after a read is an
\* office-document relationship added to the root collection.  The first
\* read thus finds no such relationship.
NextCache ==
  \/ (made = 0 /\ New)
  \/ get_prop_value(1, "presentation")
  \/ (ret.op = "presentation" /\ TotalRels < MaxRels /\
        \E t \in Targets, rId \in 1..MaxRId :
          _add_relationship(1, OFFICE_DOCUMENT, t[1], rId, t[2]))
  \/ (ret.op = "_add_relationship" /\ TotalRels < MaxRels /\
        \E t \in Targets :
          _add_relationship(1, CORE_PROPERTIES, t[1], NextSeqRId(_rels[1]), t[2]))

SpecCache == Init /\ [][NextCache]_vars

\* The first read raised, there being no relationship before a read; an
\* office-document relationship was added and the read after it ran the
\* method and returned the target; a second office-document relationship
\* with another target was added, and the read after that was answered
\* from the cache with the target of the first.
C14_Witness ==
  /\ ret.op = "presentation"
  /\ ret.arg = 1
  /\ Cardinality(OfType(_rels[ret.pkg], OFFICE_DOCUMENT)) = 2
  /\ \E i \in OfType(_rels[ret.pkg], OFFICE_DOCUMENT) :
       _rels[ret.pkg][i].target # ret.val

\* ----------------------------------------------------- pptx/chart/plot.py
\* DataLabels(dLbls): the object keeps the element it is given.
DataLabels(d) == [_element |-> d]

\* The plot element of plot pl is given the dLbls child d, or loses its
\* dLbls child when d is None (has_data_labels set by the application).
set_dLbls(pl, d) ==
  /\ dLbls' = [dLbls EXCEPT ![pl] = d]
  /\ ret' = Result("set_dLbls", pl, d, "ok", 0, <<>>)
  /\ UNCHANGED <<made, live, _instances, _rels, _relationships, cache, inits,
                 first, part_attrs, fileVars, presVars>>

\* data_labels adding the missing dLbls child instead of raising.
data_labels_get_or_add(pl) ==
  /\ dLbls' = [dLbls EXCEPT ![pl] = IF @ = None THEN 1 ELSE @]
  /\ ret' = [op |-> "data_labels", pkg |-> pl,
             arg |-> IF ret.op = "data_labels" /\ ret.pkg = pl THEN 1 ELSE 0,
             status |-> "ok", val |-> DataLabels(dLbls'[pl]), seq |-> <<>>]
  /\ UNCHANGED <<made, live, _instances, _rels, _relationships, cache, inits,
                 first, part_attrs, fileVars, presVars>>

\* Plot.data_labels of plot pl: ValueError when the element has no dLbls
\* child, else a DataLabels on that child.  arg is 1 when the operation
\* before this one was the same access.
data_labels(pl) ==
  /\ ret' = Result("data_labels", pl,
                   IF ret.op = "data_labels" /\ ret.pkg = pl THEN 1 ELSE 0,
                   IF dLbls[pl] = None THEN "ValueError" ELSE "ok",
                   IF dLbls[pl] = None THEN None ELSE DataLabels(dLbls[pl]),
                   <<>>)
  /\ UNCHANGED <<made, live, _instances, _rels, _relationships, cache, inits,
                 first, part_attrs, fileVars, presVars, plotVars>>

NextPlot ==
  \/ \E pl \in Plots, d \in 0..MaxDLbls : set_dLbls(pl, d)
  \/ \E pl \in Plots : data_labels(pl)

SpecPlot == Init /\ [][NextPlot]_vars

\* One access of data_labels on plot ret'.pkg.
DataLabelsStep ==
  ret'.op = "data_labels" =>
    /\ dLbls' = dLbls
    /\ IF dLbls[ret'.pkg] = None
         THEN ret'.status = "ValueError"
         ELSE ret'.status = "ok" /\ ret'.val._element = dLbls[ret'.pkg]

\* C15: data_labels raises ValueError whenever the plot element has no dLbls
\* child, changing nothing and creating no data labels, and so on every
\* repeated access until the element is given data labels; with a dLbls
\* child it returns a DataLabels on exactly that child.
C15_DataLabelsPrecondition == [][DataLabelsStep]_vars

\* An access that failed was repeated and failed again, while another plot
\* has data labels.
C15_Witness ==
  /\ ret.op = "data_labels"
  /\ ret.arg = 1
  /\ ret.status = "ValueError"
  /\ dLbls[ret.pkg] = None
  /\ \E pl \in Plots : dLbls[pl] # None

\* A plot that was given data labels returned them.
DataLabels_Witness ==
  /\ ret.op = "data_labels"
  /\ ret.status = "ok"
  /\ ret.val._element = MaxDLbls

\* --------------------------------- Package.instances, statement by statement
\* The first statement of instances(): the class's list is pruned in place.
\* arg of the result records whether a Package was collected since.
instances_prune ==
  /\ _instances' = Pruned(_instances)
  /\ ret' = Result("instances_prune", 0, 0, "ok", 0, <<>>)
  /\ UNCHANGED <<made, live, _rels, _relationships, cache, inits, first,
                 part_attrs, fileVars, presVars, plotVars>>

\* Package p is collected while a call of instances() is between its two
\* statements (the collector runs on an allocation, or another thread drops
\* the last reference).
collect_in_call(p) ==
  /\ ret.op = "instances_prune"
  /\ p \in live
  /\ live' = live \ {p}
  /\ _rels' = [_rels EXCEPT ![p] = <<>>]
  /\ cache' = [cache EXCEPT ![p] = NoCache]
  /\ inits' = [inits EXCEPT ![p] = NoInits]
  /\ first' = [first EXCEPT ![p] = NoCache]
  /\ ret' = [ret EXCEPT !.arg = 1]
  /\ UNCHANGED <<made, _instances, _relationships, part_attrs, fileVars,
                 presVars, plotVars>>

\* The second statement: every weak reference left in the list is called,
\* a dead one giving None, and the results are returned as a tuple.
instances_deref ==
  /\ ret.op = "instances_prune"
  /\ ret' = Result("instances", 0, ret.arg, "ok", 0,
                   [i \in 1..Len(_instances) |->
                      IF _instances[i] \in live THEN _instances[i] ELSE None])
  /\ UNCHANGED <<made, live, _instances, _rels, _relationships, cache, inits,
                 first, part_attrs, fileVars, presVars, plotVars>>

\* Packages are constructed and collected, also in the middle of a call of
\* instances().
NextRace ==
  \/ (made < MaxPkgs /\ ret.op # "instances_prune" /\ New)
  \/ (ret.op # "instances_prune" /\ \E p \in PkgIds : Collect(p))
  \/ instances_prune
  \/ \E p \in PkgIds : collect_in_call(p)
  \/ instances_deref

SpecRace == Init /\ [][NextRace]_vars

\* C16: every element of the tuple instances() returns is a live Package and
\* never None, also when a Package is collected between the statement that
\* prunes the list and the statement that dereferences it.
C16_NeverNone ==
  ret.op = "instances" =>
    \A i \in 1..Len(ret.seq) : ret.seq[i] # None /\ ret.seq[i] \in live

\* What the call does do: with no collection between its two statements the
\* tuple holds the live Packages, and with one it holds None at the place of
\* each Package collected there.
Instances_NoneOnlyWhenCollectedInCall ==
  ret.op = "instances" =>
    /\ ret.arg = 0 => ret.seq = Pruned(_instances) /\ ret.seq = _instances
    /\ \A i \in 1..Len(ret.seq) :
         IF _instances[i] \in live THEN ret.seq[i] = _instances[i]
         ELSE ret.seq[i] = None /\ ret.arg = 1

\* --------------------------------------------- external relationships
\* C17: on a graph with external relationships _parts still completes and
\* returns only parts: no external target is listed, and every part
\* reachable through the other relationships is.
C17_ExternalsSkipped ==
  (ret.op = "_parts" /\ ExternalReachable(ret.pkg)) =>
    /\ ret.status = "ok"
    /\ \A i \in 1..Len(ret.seq) : ret.seq[i] \in DOMAIN _relationships
    /\ Reachable(ret.pkg) \subseteq SeqSet(ret.seq)

\* What the walk does do there: it raises at the first external relationship
\* it comes to and _parts returns no list.
Walk_RaisesOnExternal ==
  (ret.op = "_parts" /\ ExternalReachable(ret.pkg)) =>
    ret.status = "error" /\ ret.seq = <<>>

\* _parts was read on a graph whose root leads to a part and to a URI.
Walk_ExternalWitness ==
  /\ ret.op = "_parts"
  /\ ExternalReachable(ret.pkg)
  /\ Reachable(ret.pkg) # {}

====
